---- MODULE Spec2Model ----
(***************************************************************************)
(* MealMax: the catalog store of kitchen_model.py (a single `meals` table  *)
(* with soft delete, battle statistics and a leaderboard) and the battle   *)
(* engine that calls it.                                                   *)
(*                                                                         *)
(* A row's id is its position in `meals`: the store assigns ids 1, 2, ...  *)
(* and no statement of the program removes a row.  Prices are whole        *)
(* numbers of currency units; a win percentage is kept in tenths of a      *)
(* percent (333 is 33.3).                                                  *)
(***************************************************************************)
EXTENDS Integers, Sequences, FiniteSets, TLC

VARIABLES
    meals,        \* the meals table: a sequence of rows, row i has id i
    combatants,   \* the battle engine's list of prepped Meal values
    pending,      \* per client, the call that has run its SELECT and not yet its UPDATE
    op,           \* the operation called last
    err,          \* the error that call raised, or NoError
    ret,          \* the value that call returned
    stmts,        \* the SQL statements that call issued, in order
    completed     \* how many calls of battle() have returned a winner

vars == <<meals, combatants, pending, op, err, ret, stmts, completed>>

----------------------------------------------------------------------------
(* Bounds and input sets *)

\* update_meal_stats is not called once the table holds this many battles
MaxBattles == 3

Names == {"Manti", "Sushi Roll"}
Cuisines == {"Thai", "Turkish"}
Difficulties == {"LOW", "MED", "HIGH"}
DifficultyInputs == Difficulties \cup {"EXTREME"}

\* A Python value passed as price: an int or float, the float nan, or a str.
Num(n) == [t |-> "num", v |-> n]
NaN == [t |-> "nan", v |-> 0]
Str == [t |-> "str", v |-> 0]
PriceInputs == {Num(-5), Num(0), Num(10), Num(13), NaN, Str}

\* The (cuisine, price, difficulty) arguments create_meal is called with:
\* those of the meal Turkish / 13 / MED with at most one of them replaced,
\* and one call in which both price and difficulty are invalid.
BaseAttrs == <<"Turkish", Num(13), "MED">>
AttrInputs ==
    {<<c, BaseAttrs[2], BaseAttrs[3]>> : c \in Cuisines}
        \cup {<<BaseAttrs[1], p, BaseAttrs[3]>> : p \in PriceInputs}
        \cup {<<BaseAttrs[1], BaseAttrs[2], d>> : d \in DifficultyInputs}
        \cup {<<"Turkish", Num(0), "EXTREME">>}

Results == {"win", "loss", "draw"}
SortKeys == {"wins", "win_pct", "battles"}

\* ids a caller may pass: every id the table can hold and one it never holds
Ids == 1 .. (Cardinality(Names) + 1)

\* the processes that call the store at the same time
Clients == {"c1", "c2"}
Idle == [call |-> "idle"]

NoError == "none"
None == [kind |-> "None"]

----------------------------------------------------------------------------
(* The store: the schema's constraints and the statements' effects *)

\* NameTaken for a table whose name column is not declared UNIQUE
NameTakenNever(tbl, name) == FALSE

\* a uniqueness that covers the rows that are not deleted only
NameTakenAmongLive(tbl, name) ==
    \E i \in DOMAIN tbl : tbl[i].meal = name /\ ~tbl[i].deleted

\* name TEXT NOT NULL UNIQUE: the constraint covers every row of the table
NameTaken(tbl, name) == \E i \in DOMAIN tbl : tbl[i].meal = name

\* price REAL NOT NULL: the store binds a float nan as NULL
BindsNull(price) == price.t = "nan"

\* INSERT INTO meals (meal, cuisine, price, difficulty): the other columns
\* take their defaults and the id is the next rowid
NewRow(meal, cuisine, price, difficulty) ==
    [meal |-> meal, cuisine |-> cuisine, price |-> price.v,
     difficulty |-> difficulty, deleted |-> FALSE, battles |-> 0, wins |-> 0]

TotalBattles(tbl) ==
    LET RECURSIVE Sum(_)
        Sum(i) == IF i = 0 THEN 0 ELSE tbl[i].battles + Sum(i - 1)
    IN  Sum(Len(tbl))

----------------------------------------------------------------------------
(* Meal, the dataclass *)

\* Meal.__post_init__
MealPostInitOk(price, difficulty) ==
    ~(price < 0) /\ difficulty \in Difficulties

MealOf(id, row) ==
    [kind |-> "Meal", id |-> id, meal |-> row.meal, cuisine |-> row.cuisine,
     price |-> row.price, difficulty |-> row.difficulty]

\* Meal(id, meal, cuisine, price, difficulty): the generated __init__ stores
\* the fields and __post_init__ checks the price, then the difficulty
NewMeal(id, meal, cuisine, price, difficulty) ==
    /\ op' = "Meal"
    /\ stmts' = <<>>
    /\ UNCHANGED <<meals, combatants, pending, completed>>
    /\ IF price < 0
       THEN /\ err' = "Price must be a positive value."
            /\ ret' = None
       ELSE IF difficulty \notin Difficulties
       THEN /\ err' = "Difficulty must be 'LOW', 'MED', or 'HIGH'."
            /\ ret' = None
       ELSE /\ err' = NoError
            /\ ret' = [kind |-> "Meal", id |-> id, meal |-> meal,
                       cuisine |-> cuisine, price |-> price,
                       difficulty |-> difficulty]

----------------------------------------------------------------------------
(* create_meal *)

\* not isinstance(price, (int, float)) or price <= 0; nan <= 0 is False
PriceRejected(price) ==
    \/ price.t \notin {"num", "nan"}
    \/ (price.t = "num" /\ price.v <= 0)

CreateMeal(meal, cuisine, price, difficulty) ==
    /\ op' = "create_meal"
    /\ ret' = None
    /\ UNCHANGED <<combatants, pending, completed>>
    /\ IF PriceRejected(price)
       THEN /\ err' = "Invalid price"
            /\ stmts' = <<>>
            /\ UNCHANGED meals
       ELSE IF difficulty \notin Difficulties
       THEN /\ err' = "Invalid difficulty level"
            /\ stmts' = <<>>
            /\ UNCHANGED meals
       ELSE IF NameTaken(meals, meal) \/ BindsNull(price)
       THEN \* sqlite3.IntegrityError
            /\ err' = "already exists"
            /\ stmts' = <<"INSERT">>
            /\ UNCHANGED meals
       ELSE /\ err' = NoError
            /\ stmts' = <<"INSERT", "COMMIT">>
            /\ meals' = Append(meals, NewRow(meal, cuisine, price, difficulty))

----------------------------------------------------------------------------
(* delete_meal *)

\* DeleteMeal reading an absent row as a flag that is false: it goes on to
\* an UPDATE that matches no row, and raises nothing
DeleteMealAbsentAsFalse(meal_id) ==
    /\ op' = "delete_meal"
    /\ ret' = None
    /\ UNCHANGED <<combatants, pending, completed>>
    /\ IF meal_id \in DOMAIN meals /\ meals[meal_id].deleted
       THEN /\ err' = "has been deleted"
            /\ stmts' = <<"SELECT">>
            /\ UNCHANGED meals
       ELSE /\ err' = NoError
            /\ stmts' = <<"SELECT", "UPDATE", "COMMIT">>
            /\ meals' = IF meal_id \in DOMAIN meals
                        THEN [meals EXCEPT ![meal_id].deleted = TRUE]
                        ELSE meals

\* DeleteMeal clearing the statistics of the row it marks as deleted
DeleteMealResettingStats(meal_id) ==
    /\ op' = "delete_meal"
    /\ ret' = None
    /\ UNCHANGED <<combatants, pending, completed>>
    /\ IF meal_id \notin DOMAIN meals
       THEN /\ err' = "not found"
            /\ stmts' = <<"SELECT">>
            /\ UNCHANGED meals
       ELSE IF meals[meal_id].deleted
       THEN /\ err' = "has been deleted"
            /\ stmts' = <<"SELECT">>
            /\ UNCHANGED meals
       ELSE /\ err' = NoError
            /\ stmts' = <<"SELECT", "UPDATE", "COMMIT">>
            /\ meals' = [meals EXCEPT ![meal_id].deleted = TRUE,
                                      ![meal_id].battles = 0,
                                      ![meal_id].wins = 0]

DeleteMeal(meal_id) ==
    /\ op' = "delete_meal"
    /\ ret' = None
    /\ UNCHANGED <<combatants, pending, completed>>
    /\ IF meal_id \notin DOMAIN meals
       THEN \* fetchone() is None: TypeError
            /\ err' = "not found"
            /\ stmts' = <<"SELECT">>
            /\ UNCHANGED meals
       ELSE IF meals[meal_id].deleted
       THEN /\ err' = "has been deleted"
            /\ stmts' = <<"SELECT">>
            /\ UNCHANGED meals
       ELSE /\ err' = NoError
            /\ stmts' = <<"SELECT", "UPDATE", "COMMIT">>
            /\ meals' = [meals EXCEPT ![meal_id].deleted = TRUE]

----------------------------------------------------------------------------
(* get_meal_by_id, get_meal_by_name *)

\* the row fetchone() returns for SELECT ... WHERE meal = ?
RowsNamed(name) == {i \in DOMAIN meals : meals[i].meal = name}

\* Fetched with the SELECT filtering on deleted = false: a deleted row is
\* reported as absent
FetchedSkippingDeleted(tbl, found) ==
    LET live == {i \in found : ~tbl[i].deleted} IN
    IF live = {}
    THEN [err |-> "not found", ret |-> None]
    ELSE LET i == CHOOSE i \in live : TRUE IN
         [err |-> NoError, ret |-> MealOf(i, tbl[i])]

\* what a get returns when the SELECT matched the rows `found` of tbl
Fetched(tbl, found) ==
    IF found = {}
    THEN [err |-> "not found", ret |-> None]
    ELSE LET i == CHOOSE i \in found : TRUE IN
         IF tbl[i].deleted
         THEN [err |-> "has been deleted", ret |-> None]
         ELSE IF ~MealPostInitOk(tbl[i].price, tbl[i].difficulty)
         THEN [err |-> "Meal rejected", ret |-> None]
         ELSE [err |-> NoError, ret |-> MealOf(i, tbl[i])]

GetMeal(opname, found) ==
    /\ op' = opname
    /\ stmts' = <<"SELECT">>
    /\ err' = Fetched(meals, found).err
    /\ ret' = Fetched(meals, found).ret
    /\ UNCHANGED <<meals, combatants, pending, completed>>

GetMealById(meal_id) == GetMeal("get_meal_by_id", {meal_id} \cap DOMAIN meals)

GetMealByName(meal_name) == GetMeal("get_meal_by_name", RowsNamed(meal_name))

----------------------------------------------------------------------------
(* update_meal_stats *)

\* CounterUpdate with the win statement leaving out battles = battles + 1
CounterUpdateWinsOnly(tbl, meal_id, result) ==
    IF meal_id \notin DOMAIN tbl THEN tbl
    ELSE IF result = "win"
    THEN [tbl EXCEPT ![meal_id].wins = @ + 1]
    ELSE [tbl EXCEPT ![meal_id].battles = @ + 1]

\* CounterUpdate with the statements leaving out WHERE id = ?
CounterUpdateEveryRow(tbl, meal_id, result) ==
    [i \in DOMAIN tbl |->
        [tbl[i] EXCEPT !.battles = @ + 1,
                       !.wins = IF result = "win" THEN @ + 1 ELSE @]]

\* UPDATE meals SET battles = battles + 1, wins = wins + 1 WHERE id = ?
\* UPDATE meals SET battles = battles + 1 WHERE id = ?
CounterUpdate(tbl, meal_id, result) ==
    IF meal_id \notin DOMAIN tbl THEN tbl
    ELSE IF result = "win"
    THEN [tbl EXCEPT ![meal_id].battles = @ + 1, ![meal_id].wins = @ + 1]
    ELSE [tbl EXCEPT ![meal_id].battles = @ + 1]

\* SELECT deleted FROM meals WHERE id = ? and the test of what it fetched:
\* no row is the TypeError of None[0], a set flag is the "deleted" error
FlagLookup(tbl, meal_id) ==
    IF meal_id \notin DOMAIN tbl THEN "not found"
    ELSE IF tbl[meal_id].deleted THEN "has been deleted"
    ELSE NoError

\* update_meal_stats with a plain else for every result that is not 'win'
StatsUpdateElseIsLoss(tbl, meal_id, result) ==
    IF FlagLookup(tbl, meal_id) # NoError
    THEN [err |-> FlagLookup(tbl, meal_id), tbl |-> tbl, stmts |-> <<"SELECT">>]
    ELSE [err |-> NoError, tbl |-> CounterUpdate(tbl, meal_id, result),
          stmts |-> <<"SELECT", "UPDATE", "COMMIT">>]

\* the error update_meal_stats raises on table tbl, and the table it leaves
StatsUpdate(tbl, meal_id, result) ==
    IF FlagLookup(tbl, meal_id) # NoError
    THEN [err |-> FlagLookup(tbl, meal_id), tbl |-> tbl, stmts |-> <<"SELECT">>]
    ELSE IF result \in {"win", "loss"}
    THEN [err |-> NoError, tbl |-> CounterUpdate(tbl, meal_id, result),
          stmts |-> <<"SELECT", "UPDATE", "COMMIT">>]
    ELSE [err |-> "Invalid result", tbl |-> tbl, stmts |-> <<"SELECT">>]

\* a call of update_meal_stats with no other statement between its own
UpdateMealStats(meal_id, result) ==
    LET r == StatsUpdate(meals, meal_id, result) IN
    /\ r.err = NoError => TotalBattles(meals) < MaxBattles
    /\ op' = "update_meal_stats"
    /\ ret' = None
    /\ err' = r.err
    /\ stmts' = r.stmts
    /\ meals' = r.tbl
    /\ UNCHANGED <<combatants, pending, completed>>

\* The same call by client c when other clients' statements may come between
\* its SELECT and its UPDATE: each call opens its own connection, and the
\* SELECT is not part of the transaction the UPDATE begins.
PendingUpdates == {c \in Clients : pending[c].call = "update_meal_stats"}

BeginUpdateMealStats(c, meal_id, result) ==
    LET e == FlagLookup(meals, meal_id) IN
    /\ pending[c] = Idle
    /\ UNCHANGED <<meals, combatants, completed>>
    /\ IF e # NoError \/ result \notin {"win", "loss"}
       THEN /\ op' = "update_meal_stats"
            /\ ret' = None
            /\ err' = IF e # NoError THEN e ELSE "Invalid result"
            /\ stmts' = <<"SELECT">>
            /\ UNCHANGED pending
       ELSE /\ TotalBattles(meals) + Cardinality(PendingUpdates) < MaxBattles
            /\ pending' = [pending EXCEPT ![c] =
                              [call |-> "update_meal_stats", id |-> meal_id,
                               result |-> result]]
            /\ UNCHANGED <<op, err, ret, stmts>>

FinishUpdateMealStats(c) ==
    /\ pending[c].call = "update_meal_stats"
    /\ meals' = CounterUpdate(meals, pending[c].id, pending[c].result)
    /\ pending' = [pending EXCEPT ![c] = Idle]
    /\ op' = "update_meal_stats"
    /\ ret' = None
    /\ err' = NoError
    /\ stmts' = <<"SELECT", "UPDATE", "COMMIT">>
    /\ UNCHANGED <<combatants, completed>>

----------------------------------------------------------------------------
(* get_leaderboard *)

\* round(x, 1) of x = 100 * wins / battles, in tenths: to the nearest tenth,
\* a tie (the first is 1 win in 16 battles, 6.25) going to the even one
WinPct(wins, battles) ==
    LET n == 1000 * wins
        q == n \div battles
        r == n % battles
    IN  IF 2 * r < battles THEN q
        ELSE IF 2 * r > battles THEN q + 1
        ELSE IF q % 2 = 0 THEN q ELSE q + 1

\* OnBoard for a query that leaves out deleted = false
OnBoardWithDeleted(tbl) == {i \in DOMAIN tbl : tbl[i].battles > 0}

\* WHERE deleted = false AND battles > 0
OnBoard(tbl) == {i \in DOMAIN tbl : ~tbl[i].deleted /\ tbl[i].battles > 0}

\* MayPrecede for ORDER BY <key> ASC
MayPrecedeAscending(tbl, sort_by, i, j) ==
    IF sort_by = "wins"
    THEN tbl[i].wins <= tbl[j].wins
    ELSE tbl[i].wins * tbl[j].battles <= tbl[j].wins * tbl[i].battles

\* row i may come before row j under ORDER BY <key> DESC; win_pct is the
\* quotient wins * 1.0 / battles, compared here without the division
MayPrecede(tbl, sort_by, i, j) ==
    IF sort_by = "wins"
    THEN tbl[i].wins >= tbl[j].wins
    ELSE tbl[i].wins * tbl[j].battles >= tbl[j].wins * tbl[i].battles

\* the orders in which the store may return the rows: every arrangement of
\* the selected rows that ORDER BY allows (rows with equal keys come in an
\* order the store chooses)
RowOrders(tbl, sort_by) ==
    LET S == OnBoard(tbl)
        n == Cardinality(S)
    IN  {f \in [1 .. n -> S] :
            /\ \A a, b \in 1 .. n : a # b => f[a] # f[b]
            /\ \A a \in 1 .. n - 1 : MayPrecede(tbl, sort_by, f[a], f[a + 1])}

Entry(tbl, i) ==
    [id |-> i, meal |-> tbl[i].meal, cuisine |-> tbl[i].cuisine,
     price |-> tbl[i].price, difficulty |-> tbl[i].difficulty,
     battles |-> tbl[i].battles, wins |-> tbl[i].wins,
     win_pct |-> WinPct(tbl[i].wins, tbl[i].battles)]

GetLeaderboard(sort_by) ==
    /\ op' = "get_leaderboard"
    /\ UNCHANGED <<meals, combatants, pending, completed>>
    /\ IF sort_by \notin {"win_pct", "wins"}
       THEN /\ err' = "Invalid sort_by parameter"
            /\ stmts' = <<>>
            /\ ret' = None
       ELSE /\ err' = NoError
            /\ stmts' = <<"SELECT">>
            /\ \E f \in RowOrders(meals, sort_by) :
                 ret' = [kind |-> "list",
                         rows |-> [a \in DOMAIN f |-> Entry(meals, f[a])]]

----------------------------------------------------------------------------

(* The battle engine *)

\* get_battle_score: price * len(cuisine) - difficulty_modifier
\* the modifiers of HIGH and LOW exchanged
DifficultyModifierReversed(difficulty) ==
    CASE difficulty = "HIGH" -> 3
      [] difficulty = "MED" -> 2
      [] difficulty = "LOW" -> 1

DifficultyModifier(difficulty) ==
    CASE difficulty = "HIGH" -> 1
      [] difficulty = "MED" -> 2
      [] difficulty = "LOW" -> 3

CuisineLen(cuisine) == Len(cuisine)

BattleScore(meal) ==
    meal.price * CuisineLen(meal.cuisine) - DifficultyModifier(meal.difficulty)

GetBattleScore(meal) ==
    /\ op' = "get_battle_score"
    /\ err' = NoError
    /\ ret' = [kind |-> "num", val |-> BattleScore(meal)]
    /\ stmts' = <<>>
    /\ UNCHANGED <<meals, combatants, pending, completed>>

Abs(x) == IF x < 0 THEN -x ELSE x
Min(x, y) == IF x < y THEN x ELSE y

\* the score gap squashed into [0, 1], in two-hundredths: a gap of 0 gives
\* one half, the gap is divided by 100 and the result clamped
NormalizedDelta(score_1, score_2) == 100 + Min(Abs(score_1 - score_2), 100)

\* what the random source returns, in hundredths
RandomFractions == {0, 50, 75, 100}
RandomFailed == -1

\* prep_combatant refusing only a list of more than two
PrepCombatantOffByOne(meal) ==
    /\ op' = "prep_combatant"
    /\ ret' = None
    /\ stmts' = <<>>
    /\ UNCHANGED <<meals, pending, completed>>
    /\ IF Len(combatants) > 2
       THEN /\ err' = "Combatant list is full"
            /\ UNCHANGED combatants
       ELSE /\ err' = NoError
            /\ combatants' = Append(combatants, meal)

\* prep_combatant appending the meal before it looks at the length
PrepCombatantAppendingFirst(meal) ==
    /\ op' = "prep_combatant"
    /\ ret' = None
    /\ stmts' = <<>>
    /\ UNCHANGED <<meals, pending, completed>>
    /\ combatants' = Append(combatants, meal)
    /\ err' = IF Len(combatants') > 2 THEN "Combatant list is full" ELSE NoError

PrepCombatant(meal) ==
    /\ op' = "prep_combatant"
    /\ ret' = None
    /\ stmts' = <<>>
    /\ UNCHANGED <<meals, pending, completed>>
    /\ IF Len(combatants) >= 2
       THEN /\ err' = "Combatant list is full"
            /\ UNCHANGED combatants
       ELSE /\ err' = NoError
            /\ combatants' = Append(combatants, meal)

ClearCombatants ==
    /\ op' = "clear_combatants"
    /\ ret' = None
    /\ err' = NoError
    /\ stmts' = <<>>
    /\ combatants' = <<>>
    /\ UNCHANGED <<meals, pending, completed>>

\* the list without its first element, whatever x is
RemoveFirst(list, x) == [i \in 1 .. Len(list) - 1 |-> list[i + 1]]

\* list.remove: the list without its first element equal to x
Remove(list, x) ==
    LET k == CHOOSE i \in DOMAIN list :
                 list[i] = x /\ \A j \in 1 .. i - 1 : list[j] # x
    IN  [i \in 1 .. Len(list) - 1 |-> IF i < k THEN list[i] ELSE list[i + 1]]

\* the winner's place in the list: the higher score wins when the random
\* fraction is below the normalized delta, the other combatant otherwise;
\* of two equal scores the first counts as the higher
\* the first combatant winning whenever the random fraction is below the
\* normalized delta, whichever score is the higher
WinnerIndexFirstWhenBelow(score_1, score_2, random) ==
    IF 2 * random < NormalizedDelta(score_1, score_2) THEN 1 ELSE 2

WinnerIndex(score_1, score_2, random) ==
    LET higher == IF score_1 >= score_2 THEN 1 ELSE 2 IN
    IF 2 * random < NormalizedDelta(score_1, score_2) THEN higher ELSE 3 - higher

Battle(random) ==
    /\ op' = "battle"
    /\ UNCHANGED pending
    /\ IF Len(combatants) < 2
       THEN /\ err' = "Two combatants must be prepped"
            /\ ret' = None
            /\ stmts' = <<>>
            /\ UNCHANGED <<meals, combatants, completed>>
       ELSE IF random = RandomFailed
       THEN /\ err' = "random source failed"
            /\ ret' = None
            /\ stmts' = <<>>
            /\ UNCHANGED <<meals, combatants, completed>>
       ELSE LET w == WinnerIndex(BattleScore(combatants[1]),
                                 BattleScore(combatants[2]), random)
                winner == combatants[w]
                loser == combatants[3 - w]
                won == StatsUpdate(meals, winner.id, "win")
                lost == StatsUpdate(won.tbl, loser.id, "loss")
            IN  /\ TotalBattles(meals) + 2 <= MaxBattles
                /\ IF won.err # NoError
                   THEN /\ err' = won.err
                        /\ ret' = None
                        /\ stmts' = won.stmts
                        /\ UNCHANGED <<meals, combatants, completed>>
                   ELSE IF lost.err # NoError
                   THEN /\ err' = lost.err
                        /\ ret' = None
                        /\ stmts' = won.stmts \o lost.stmts
                        /\ meals' = won.tbl
                        /\ UNCHANGED <<combatants, completed>>
                   ELSE /\ err' = NoError
                        /\ ret' = [kind |-> "str", val |-> winner.meal]
                        /\ stmts' = won.stmts \o lost.stmts
                        /\ meals' = lost.tbl
                        /\ combatants' = Remove(combatants, loser)
                        /\ completed' = completed + 1

----------------------------------------------------------------------------
(* Specifications *)

Init ==
    /\ meals = <<>>
    /\ combatants = <<>>
    /\ pending = [c \in Clients |-> Idle]
    /\ op = "none"
    /\ err = NoError
    /\ ret = None
    /\ stmts = <<>>
    /\ completed = 0

\* The catalog store, one call at a time.
Next ==
    \/ \E n \in Names, a \in AttrInputs : CreateMeal(n, a[1], a[2], a[3])
    \/ \E i \in Ids : DeleteMeal(i)
    \/ \E i \in Ids : GetMealById(i)
    \/ \E n \in Names : GetMealByName(n)
    \/ \E i \in Ids, r \in Results : UpdateMealStats(i, r)
    \/ \E s \in SortKeys : GetLeaderboard(s)

Spec == Init /\ [][Next]_vars

\* The battle engine over the store, one call at a time.  A caller preps a
\* Meal it got from the store, which may have been deleted since.
BattleAttrs == {a \in AttrInputs : a[2] = Num(13) /\ a[3] \in Difficulties}

BattleNext ==
    \/ \E n \in Names, a \in BattleAttrs : CreateMeal(n, a[1], a[2], a[3])
    \/ \E i \in Ids : DeleteMeal(i)
    \/ \E i \in Ids, r \in Results : UpdateMealStats(i, r)
    \/ \E i \in DOMAIN meals : PrepCombatant(MealOf(i, meals[i]))
    \/ ClearCombatants
    \/ \E r \in RandomFractions \cup {RandomFailed} : Battle(r)

BattleSpec == Init /\ [][BattleNext]_vars

\* The engine over a store whose counters no caller updates directly.
ArenaNext ==
    \/ \E n \in Names, a \in BattleAttrs : CreateMeal(n, a[1], a[2], a[3])
    \/ \E i \in Ids : DeleteMeal(i)
    \/ \E i \in DOMAIN meals : PrepCombatant(MealOf(i, meals[i]))
    \/ ClearCombatants
    \/ \E r \in RandomFractions \cup {RandomFailed} : Battle(r)

ArenaSpec == Init /\ [][ArenaNext]_vars

\* Meal values built and scored.  The prices a Meal is built with, and the
\* Meal values that can be built from them.
MealPrices == {-5, 0, 10, 13}
ScoreMeals ==
    {[kind |-> "Meal", id |-> 1, meal |-> n, cuisine |-> c, price |-> p,
      difficulty |-> d] :
        n \in Names, c \in Cuisines, p \in {q \in MealPrices : ~(q < 0)},
        d \in Difficulties}

\* the engine holds up to two Meal values and the store may hold a row
PreppedMeals == {m \in ScoreMeals : m.price = BaseAttrs[2].v /\ m.difficulty = BaseAttrs[3]}
MealInit ==
    /\ meals \in {<<>>, <<NewRow("Manti", BaseAttrs[1], BaseAttrs[2], BaseAttrs[3])>>}
    /\ combatants \in {<<>>} \cup {<<m>> : m \in PreppedMeals}
                        \cup {<<m, n>> : m, n \in PreppedMeals}
    /\ pending = [c \in Clients |-> Idle]
    /\ op = "none"
    /\ err = NoError
    /\ ret = None
    /\ stmts = <<>>
    /\ completed = 0

MealNext ==
    \/ \E n \in Names, c \in Cuisines, p \in MealPrices, d \in DifficultyInputs :
          NewMeal(1, n, c, p, d)
    \/ \E m \in ScoreMeals : GetBattleScore(m)

MealSpec == MealInit /\ [][MealNext]_vars

\* The store called by several clients at once: a call of update_meal_stats
\* is two steps, and any other client's call may come between them.
ConcNext ==
    \/ \E n \in Names : CreateMeal(n, BaseAttrs[1], BaseAttrs[2], BaseAttrs[3])
    \/ \E i \in Ids : DeleteMeal(i)
    \/ \E c \in Clients, i \in Ids, r \in Results : BeginUpdateMealStats(c, i, r)
    \/ \E c \in Clients : FinishUpdateMealStats(c)

ConcSpec == Init /\ [][ConcNext]_vars

----------------------------------------------------------------------------
(* Properties *)

Live(tbl, i) == i \in DOMAIN tbl /\ ~tbl[i].deleted

\* C1: after any sequence of create, delete, update_stats and battle calls,
\* successful or failing, every row has 0 <= wins <= battles.
C1_WinsAtMostBattles ==
    \A i \in DOMAIN meals :
        0 <= meals[i].wins /\ meals[i].wins <= meals[i].battles

\* a battle has failed in its second update, after the first was applied,
\* and the table holds a row with a win and a row with a loss
C1_Witness ==
    /\ op = "battle"
    /\ err = "has been deleted"
    /\ \E i, j \in DOMAIN meals :
          /\ meals[i].wins >= 1
          /\ meals[j].battles > meals[j].wins

\* C2: on a meal that exists and is not deleted, update_stats(id, 'win')
\* adds 1 to that row's battles and 1 to its wins, update_stats(id, 'loss')
\* adds 1 to its battles only, and nothing else in the table changes.
C2_UpdateStatsEffect ==
    [][\A i \in Ids, r \in {"win", "loss"} :
          (op' = "update_meal_stats" /\ Live(meals, i) /\ UpdateMealStats(i, r)) =>
              /\ err' = NoError
              /\ DOMAIN meals' = DOMAIN meals
              /\ meals'[i].battles = meals[i].battles + 1
              /\ meals'[i].wins = meals[i].wins + (IF r = "win" THEN 1 ELSE 0)
              /\ \A f \in {"meal", "cuisine", "price", "difficulty", "deleted"} :
                    meals'[i][f] = meals[i][f]
              /\ \A j \in DOMAIN meals : j # i => meals'[j] = meals[j]]_vars

\* both kinds of update have been applied to one row while another row exists
C2_Witness ==
    /\ op = "update_meal_stats"
    /\ err = NoError
    /\ Len(meals) = 2
    /\ \E i \in DOMAIN meals : meals[i].battles = 2 /\ meals[i].wins = 1

\* C3: no counter update is applied to a row that is absent or soft-deleted
\* at the moment the update is applied, whatever other calls come between
\* update_stats's lookup and its UPDATE.
C3_NoUpdateOnDeletedRow ==
    [][\A i \in DOMAIN meals :
          (meals'[i].battles # meals[i].battles \/ meals'[i].wins # meals[i].wins)
              => ~meals[i].deleted]_vars

\* C4: delete(id) fails with 'not found' when the table has no row id, with
\* 'already deleted' when the row's flag is set, and sets the flag otherwise;
\* a set flag stays set, so a delete(id) after a successful delete(id) fails
\* with 'already deleted' and leaves the table as it was.
C4_DeleteResults ==
    [][/\ \A i \in Ids :
            (op' = "delete_meal" /\ DeleteMeal(i)) =>
                /\ i \notin DOMAIN meals =>
                      err' = "not found" /\ meals' = meals
                /\ (i \in DOMAIN meals /\ meals[i].deleted) =>
                      err' = "has been deleted" /\ meals' = meals
                /\ Live(meals, i) =>
                      /\ err' = NoError
                      /\ meals' = [meals EXCEPT ![i].deleted = TRUE]
       /\ \A i \in DOMAIN meals :
            meals[i].deleted => (i \in DOMAIN meals' /\ meals'[i].deleted)]_vars

\* a delete of an already deleted row has failed
C4_Witness ==
    /\ op = "delete_meal"
    /\ err = "has been deleted"
    /\ \E i \in DOMAIN meals : meals[i].deleted

\* what a get of the rows `found` must raise and return
C5_GetOutcome(found) ==
    /\ found = {} => (err' = "not found" /\ ret'.kind = "None")
    /\ \A i \in found :
          /\ meals[i].deleted =>
                (err' = "has been deleted" /\ ret'.kind = "None")
          /\ ~meals[i].deleted =>
                /\ err' = NoError
                /\ ret'.kind = "Meal"
                /\ ret'.id = i
                /\ ret'.meal = meals[i].meal
                /\ ret'.cuisine = meals[i].cuisine
                /\ ret'.price = meals[i].price
                /\ ret'.difficulty = meals[i].difficulty

\* C5: get_by_id and get_by_name return the meal exactly when a row matches
\* and its flag is false, fail with 'not found' when no row matches and with
\* the 'deleted' error when the matching row is soft-deleted; a set flag
\* stays set, so every get_by_id(id) after a successful delete(id) fails
\* with the 'deleted' error.
C5_GetResults ==
    [][/\ \A i \in Ids :
            (op' = "get_meal_by_id" /\ GetMealById(i)) =>
                C5_GetOutcome({i} \cap DOMAIN meals)
       /\ \A n \in Names :
            (op' = "get_meal_by_name" /\ GetMealByName(n)) =>
                C5_GetOutcome({i \in DOMAIN meals : meals[i].meal = n})
       /\ \A i \in DOMAIN meals :
            meals[i].deleted => (i \in DOMAIN meals' /\ meals'[i].deleted)]_vars

\* a get of a deleted row has failed with the 'deleted' error
C5_Witness ==
    /\ op \in {"get_meal_by_id", "get_meal_by_name"}
    /\ err = "has been deleted"
    /\ \E i \in DOMAIN meals : meals[i].deleted

\* C6: for valid inputs and a name not yet present, create returns the id
\* the store gave the new row, and get_by_id of the returned id yields a
\* Meal with the name, cuisine, price and difficulty passed to create.
C6_CreateReturnsIdAndRoundTrips ==
    [][\A n \in Names, a \in AttrInputs :
          (op' = "create_meal" /\ err' = NoError
                /\ CreateMeal(n, a[1], a[2], a[3])) =>
              /\ ret'.kind = "int"
              /\ ret'.val = Len(meals')
              /\ LET got == Fetched(meals', {ret'.val}) IN
                    /\ got.err = NoError
                    /\ got.ret.meal = n
                    /\ got.ret.cuisine = a[1]
                    /\ got.ret.price = a[2].v
                    /\ got.ret.difficulty = a[3]]_vars

PositiveNumber(price) == price.t = "num" /\ price.v > 0

\* C7: whenever price is not a positive number or difficulty is not one of
\* LOW, MED, HIGH, create fails with a validation error, issues no statement
\* to the store and leaves the table as it was.
C7_ValidatesBeforeStorage ==
    [][\A n \in Names, a \in AttrInputs :
          (op' = "create_meal"
                /\ (~PositiveNumber(a[2]) \/ a[3] \notin Difficulties)
                /\ CreateMeal(n, a[1], a[2], a[3])) =>
              /\ err' \in {"Invalid price", "Invalid difficulty level"}
              /\ stmts' = <<>>
              /\ meals' = meals]_vars

UniqueLiveNames ==
    \A i, j \in DOMAIN meals :
        (i # j /\ ~meals[i].deleted /\ ~meals[j].deleted)
            => meals[i].meal # meals[j].meal

\* C8: no two non-deleted meals share a name, and create with the name of a
\* non-deleted meal fails with the 'duplicate name' error and inserts no row:
\* a create step that did not end so was no call with arguments that pass
\* validation and the name of a non-deleted meal.
C8_UniqueNames ==
    /\ []UniqueLiveNames
    /\ [][op' = "create_meal" =>
            \/ (err' = "already exists" /\ meals' = meals)
            \/ \A n \in Names, a \in AttrInputs :
                  ~ (/\ ~PriceRejected(a[2])
                     /\ a[3] \in Difficulties
                     /\ \E i \in DOMAIN meals : Live(meals, i) /\ meals[i].meal = n
                     /\ CreateMeal(n, a[1], a[2], a[3]))]_vars

\* a create with the name of a non-deleted meal has failed, two meals stored
C8_Witness ==
    /\ op = "create_meal"
    /\ err = "already exists"
    /\ Len(meals) = 2
    /\ \E i \in DOMAIN meals : ~meals[i].deleted

\* C9: leaderboard(sort_by), for sort_by wins or win_pct, returns exactly the
\* meals that are not deleted and have battles > 0, each once, and each entry
\* carries the row's counters and win_pct = round(100 * wins / battles, 1):
\* the tenth nearest to 100 * wins / battles.
C9_LeaderboardContents ==
    (op = "get_leaderboard" /\ err = NoError) =>
        /\ ret.kind = "list"
        /\ {ret.rows[k].id : k \in DOMAIN ret.rows}
              = {i \in DOMAIN meals : ~meals[i].deleted /\ meals[i].battles > 0}
        /\ \A k, l \in DOMAIN ret.rows :
              ret.rows[k].id = ret.rows[l].id => k = l
        /\ \A k \in DOMAIN ret.rows :
              LET e == ret.rows[k] IN
              /\ e.battles = meals[e.id].battles
              /\ e.wins = meals[e.id].wins
              /\ 2 * Abs(e.win_pct * e.battles - 1000 * e.wins) <= e.battles

\* a leaderboard with a rounded percentage (33.3 or 66.7) and a meal left
\* out of it, for being deleted or for having no battle
C9_Witness ==
    /\ op = "get_leaderboard"
    /\ err = NoError
    /\ \E k \in DOMAIN ret.rows : ret.rows[k].win_pct \in {333, 667}
    /\ \E i \in DOMAIN meals :
          (meals[i].deleted /\ meals[i].battles > 0) \/ meals[i].battles = 0

\* the value of the requested key in a leaderboard entry
SortKeyOf(entry, sort_by) ==
    IF sort_by = "wins" THEN entry.wins ELSE entry.win_pct

\* C10 as claimed: for each sort key in {wins, win_pct} the entries of
\* leaderboard(sort_by) are strictly descending on the requested key.
C10_StrictlyDescending ==
    [][\A s \in {"wins", "win_pct"} :
          (op' = "get_leaderboard" /\ err' = NoError /\ GetLeaderboard(s)) =>
              \A k \in 1 .. Len(ret'.rows) - 1 :
                  SortKeyOf(ret'.rows[k], s) > SortKeyOf(ret'.rows[k + 1], s)]_vars

\* C10 as amended: for each sort key in {wins, win_pct} the entries of
\* leaderboard(sort_by) are descending on the requested key, each key greater
\* than or equal to the next.
C10_Descending ==
    [][\A s \in {"wins", "win_pct"} :
          (op' = "get_leaderboard" /\ err' = NoError /\ GetLeaderboard(s)) =>
              \A k \in 1 .. Len(ret'.rows) - 1 :
                  SortKeyOf(ret'.rows[k], s) >= SortKeyOf(ret'.rows[k + 1], s)]_vars

\* a leaderboard of two entries with equal wins and different percentages
C10_Witness ==
    /\ op = "get_leaderboard"
    /\ err = NoError
    /\ Len(ret.rows) = 2
    /\ ret.rows[1].wins = ret.rows[2].wins
    /\ ret.rows[1].win_pct > ret.rows[2].win_pct

----------------------------------------------------------------------------
(* The battle engine's combatant list *)

\* C11: whatever calls of prep_combatant, clear_combatants and battle were
\* made, failing ones and a prep that follows a battle with no clear between
\* them included, the combatant list holds at most two meals.
C11_AtMostTwoCombatants == Len(combatants) \in {0, 1, 2}

\* a battle has left its winner in the list, a prep has filled the list
\* again and a further prep was refused
C11_Witness ==
    /\ completed > 0
    /\ op = "prep_combatant"
    /\ err = "Combatant list is full"
    /\ Len(combatants) = 2

\* C12: prep_combatant called on a list of two meals fails with the 'full'
\* error, battle called on a list of fewer than two meals fails with the
\* 'insufficient combatants' error, and either failing call leaves the list
\* exactly as it was.
C12_RefusedCallsKeepList ==
    [][/\ (op' = "prep_combatant" /\ Len(combatants) = 2)
            => (err' = "Combatant list is full" /\ combatants' = combatants)
       /\ (op' = "battle" /\ Len(combatants) < 2)
            => (/\ err' = "Two combatants must be prepped"
                /\ combatants' = combatants)]_vars

\* battle was refused on the one meal an earlier battle left in the list
C12_Witness ==
    /\ op = "battle"
    /\ err = "Two combatants must be prepped"
    /\ Len(combatants) = 1
    /\ completed > 0

----------------------------------------------------------------------------
(* The outcome of a battle *)

\* C13: for every prepped pair and every random fraction r, a battle that
\* returns has exactly one winner: when r is below the normalized delta the
\* meal with the strictly higher score, otherwise the other one; of two
\* equal scores the first combatant stands for the higher, so a tie is
\* resolved by the same comparison.
C13_DecisionRule ==
    [][op' = "battle" /\ err' = NoError =>
         \A r \in RandomFractions :
            Battle(r) =>
               LET s1 == BattleScore(combatants[1])
                   s2 == BattleScore(combatants[2])
                   below == 2 * r < NormalizedDelta(s1, s2)
                   first == IF s1 >= s2 THEN below ELSE ~below
                   winner == IF first THEN combatants[1] ELSE combatants[2]
               IN  /\ ret' = [kind |-> "str", val |-> winner.meal]
                   /\ combatants' = <<winner>>
                   /\ meals'[winner.id].wins = meals[winner.id].wins + 1]_vars

\* an upset: the one battle fought was won by the meal with the lower score
C13_Witness ==
    /\ op = "battle" /\ err = NoError
    /\ completed = 1 /\ TotalBattles(meals) = 2
    /\ \E i \in DOMAIN meals :
          /\ meals[i].battles = 1 /\ meals[i].wins = 0
          /\ BattleScore(MealOf(i, meals[i])) > BattleScore(combatants[1])

\* C14: after a battle that returns, update_meal_stats has been called
\* exactly twice, once with the winner's id and 'win' and once with the
\* loser's id and 'loss', the loser is gone from the list, which holds the
\* winner and nothing else, and the value returned is the winner's name.
C14_SuccessfulBattle ==
    [][op' = "battle" /\ err' = NoError =>
         \E w \in {1, 2} :
            LET winner == combatants[w]
                loser == combatants[3 - w]
                call == <<"SELECT", "UPDATE", "COMMIT">>
            IN  /\ stmts' = call \o call
                /\ meals' =
                     [i \in DOMAIN meals |->
                        [meals[i] EXCEPT
                           !.battles = @ + (IF i = winner.id THEN 1 ELSE 0)
                                         + (IF i = loser.id THEN 1 ELSE 0),
                           !.wins = @ + (IF i = winner.id THEN 1 ELSE 0)]]
                /\ combatants' = <<winner>>
                /\ ret' = [kind |-> "str", val |-> winner.meal]]_vars

\* a battle has returned the name of the one meal left in the list, whose
\* row has a win
C14_Witness ==
    /\ op = "battle" /\ err = NoError
    /\ Len(combatants) = 1
    /\ ret.val = combatants[1].meal
    /\ Len(stmts) = 6
    /\ meals[combatants[1].id].wins > 0

\* C15: a battle that fails, because the random source failed or because
\* either call of update_meal_stats failed (a prepped meal deleted since),
\* has changed no counter of any row; when the random source fails no
\* statement of update_meal_stats is issued at all.
C15_FailedBattleChangesNoCounter ==
    [][op' = "battle" /\ err' # NoError =>
         /\ \A i \in DOMAIN meals :
               /\ meals'[i].battles = meals[i].battles
               /\ meals'[i].wins = meals[i].wins
         /\ err' = "random source failed" => stmts' = <<>>]_vars

----------------------------------------------------------------------------
(* Meal values and their score *)

\* C16: the score of a meal is its price times the length of its cuisine
\* name minus the modifier of its difficulty (HIGH 1, MED 2, LOW 3), so of
\* meals with the same price and cuisine the HIGH one scores above the MED
\* one and the MED one above the LOW one; asking for a score changes
\* neither the combatant list nor the store.
C16_BattleScore ==
    [][op' = "get_battle_score" =>
         \A m \in ScoreMeals :
            GetBattleScore(m) =>
               /\ ret'.val = m.price * Len(m.cuisine)
                                - (CASE m.difficulty = "HIGH" -> 1
                                     [] m.difficulty = "MED" -> 2
                                     [] m.difficulty = "LOW" -> 3)
               /\ \A o \in ScoreMeals :
                     (/\ o.price = m.price /\ o.cuisine = m.cuisine
                      /\ \/ m.difficulty = "HIGH" /\ o.difficulty = "MED"
                         \/ m.difficulty = "MED" /\ o.difficulty = "LOW")
                        => ret'.val > BattleScore(o)
               /\ combatants' = combatants
               /\ meals' = meals]_vars

\* the score 13 * len("Turkish") - 2 was returned while two meals were
\* prepped and the store held a row
C16_Witness ==
    /\ op = "get_battle_score"
    /\ ret.val = 89
    /\ Len(combatants) = 2
    /\ Len(meals) = 1

\* C19: every Meal that was constructed has a price above zero and a
\* difficulty of LOW, MED or HIGH: a construction with a price of zero or
\* less or with another difficulty fails and yields no Meal.
C19_MealsAreValid ==
    (op = "Meal" /\ err = NoError) =>
        (ret.price > 0 /\ ret.difficulty \in Difficulties)

----------------------------------------------------------------------------
(* The counters of the store *)

\* C17 as stated: update_meal_stats called with a result other than 'win'
\* or 'loss' fails with the 'Invalid result' error, whatever the id, and
\* changes no counter of any row.
C17_InvalidResultError ==
    [][op' = "update_meal_stats" =>
         \A i \in Ids, r \in Results \ {"win", "loss"} :
            UpdateMealStats(i, r) =>
               (err' = "Invalid result" /\ meals' = meals)]_vars

\* C17: update_meal_stats called with a result other than 'win' or 'loss'
\* fails and changes no counter of any row; the error is 'Invalid result'
\* when the id is that of a meal that is not deleted, 'not found' when no
\* row has the id and 'has been deleted' when the row is deleted.
C17_InvalidResultOnLiveMeal ==
    [][op' = "update_meal_stats" =>
         \A i \in Ids, r \in Results \ {"win", "loss"} :
            UpdateMealStats(i, r) =>
               /\ meals' = meals
               /\ err' = IF i \notin DOMAIN meals THEN "not found"
                         ELSE IF meals[i].deleted THEN "has been deleted"
                         ELSE "Invalid result"]_vars

\* the call was refused for its result while the table holds counted battles
C17_Witness ==
    /\ op = "update_meal_stats"
    /\ err = "Invalid result"
    /\ TotalBattles(meals) > 0

\* C18: over the calls of the store, no row's battles or wins counter ever
\* decreases and only update_meal_stats changes one: create_meal,
\* delete_meal, get_meal_by_id, get_meal_by_name and get_leaderboard leave
\* the counters of every existing row as they were, and a row that
\* create_meal adds starts with battles = 0 and wins = 0.
C18_CountersFrame ==
    [][/\ DOMAIN meals \subseteq DOMAIN meals'
       /\ \A i \in DOMAIN meals :
             /\ meals'[i].battles >= meals[i].battles
             /\ meals'[i].wins >= meals[i].wins
             /\ op' # "update_meal_stats" =>
                   /\ meals'[i].battles = meals[i].battles
                   /\ meals'[i].wins = meals[i].wins
       /\ \A i \in DOMAIN meals' \ DOMAIN meals :
             meals'[i].battles = 0 /\ meals'[i].wins = 0]_vars

\* a meal with counted battles was deleted and kept its counters, and a
\* meal created next to a counted one has none
C18_Witness ==
    /\ op = "delete_meal" /\ err = NoError
    /\ \E i, j \in DOMAIN meals :
          /\ meals[i].deleted /\ meals[i].battles = 2 /\ meals[i].wins = 1
          /\ j > i /\ meals[j].battles = 0 /\ meals[j].wins = 0

----------------------------------------------------------------------------
(* Counters and completed battles *)

TotalWins(tbl) == TotalBattles([i \in DOMAIN tbl |-> [battles |-> tbl[i].wins]])

\* C20: when only battle changes the counters, in every state, those after
\* a battle that failed in one of its update_meal_stats calls and after a
\* battle of a meal against itself included, the wins of all rows add up to
\* the number of completed battles and the battles of all rows to twice
\* that number.
C20_CountersMatchCompletedBattles ==
    /\ TotalWins(meals) = completed
    /\ TotalBattles(meals) = 2 * completed

----------------------------------------------------------------------------
(* Deleted rows *)

\* C21: a deleted meal keeps its row and its name for good: no call removes
\* a row, renames it or sets its deleted flag back to false; create_meal
\* with the name of a deleted meal, and arguments that pass validation,
\* fails with the 'already exists' error and inserts no row; and
\* get_meal_by_name of that name fails with the 'has been deleted' error.
C21_DeletedNameReserved ==
    [][/\ DOMAIN meals \subseteq DOMAIN meals'
       /\ \A i \in DOMAIN meals :
             /\ meals'[i].meal = meals[i].meal
             /\ meals[i].deleted => meals'[i].deleted
       /\ op' = "create_meal" =>
             \/ (err' = "already exists" /\ meals' = meals)
             \/ \A n \in Names, a \in AttrInputs :
                   ~ (/\ ~PriceRejected(a[2])
                      /\ a[3] \in Difficulties
                      /\ \E i \in DOMAIN meals :
                            meals[i].deleted /\ meals[i].meal = n
                      /\ CreateMeal(n, a[1], a[2], a[3]))
       /\ op' = "get_meal_by_name" =>
             \A n \in Names :
                ((\E i \in DOMAIN meals : meals[i].deleted /\ meals[i].meal = n)
                    /\ GetMealByName(n))
                  => (err' = "has been deleted" /\ ret' = None)]_vars

\* every name is that of a deleted meal, and a create was refused as a
\* duplicate
C21_Witness ==
    /\ op = "create_meal"
    /\ err = "already exists"
    /\ {meals[i].meal : i \in DOMAIN meals} = Names
    /\ \A i \in DOMAIN meals : meals[i].deleted

====
